---- MODULE Spec2Model ----
(***************************************************************************)
(* A model of BudgetTracker (src/Budget_tracker.py): the balance, the      *)
(* transaction history and the recurring transactions of one session, the  *)
(* threshold alerts of add_transaction, the expansion of recurring         *)
(* transactions and the series visualize_data derives from the history.    *)
(*                                                                         *)
(* Amounts are whole currency units (the forms step by 1.0).  The clock is *)
(* counted in hours since 1 January 00:00 of a year of 365 days.  A call   *)
(* of the notifier or of a Streamlit status function is recorded in        *)
(* `events` together with the balance and the length of the history at the *)
(* moment of the call; notify_user swallows every delivery failure, so a   *)
(* failed delivery changes nothing else.                                   *)
(***************************************************************************)
EXTENDS Integers, Sequences, FiniteSets, TLC

VARIABLES
    balance,                 \* self.balance
    transactions,            \* self.transactions
    recurring_transactions,  \* self.recurring_transactions
    now,                     \* datetime.datetime.now(), in hours
    call,                    \* the most recent operation and its arguments
    events,                  \* notifier / status calls made by that operation
    chart,                   \* what the most recent visualize_data plotted
    created,                 \* per recurring transaction: the time it was added
    expansions               \* per recurring transaction: the first calls of
                             \* process_recurring_transactions that saw it

vars == <<balance, transactions, recurring_transactions, now, call,
          events, chart, created, expansions>>

\* ------------------------------------------------------------------ bounds

MaxHist == 3       \* transactions recorded in one session
MaxRules == 1      \* recurring transactions registered in one session

\* ---------------------------------------------------------- the inputs used

Amounts == {50, 100, 500, 600}
Categories == {"Rent"}
Types == {"income", "expense", "Expense", "transfer"}

RecAmounts == {50, 600}
RecCategories == {"Gym"}
RecTypes == {"Expense", "transfer"}
Frequencies == {"daily", "weekly", "monthly", "yearly"}
\* the instants at which the session is used: 31 January 00:00, then 25 h
\* later (1 February 01:00), 26 h later and 365 days later (31 January)
Start == 24 * 30
Instants == {Start, Start + 25, Start + 26, Start + 8760}

\* --------------------------------------------------------------- constants

balance_threshold == 100
large_expense_threshold == 500

\* ----------------------------------------------------------------- helpers

\* str.lower() on the type strings used here
Lower(s) ==
    CASE s = "Income" -> "income"
      [] s = "INCOME" -> "income"
      [] s = "Expense" -> "expense"
      [] s = "EXPENSE" -> "expense"
      [] s = "Transfer" -> "transfer"
      [] OTHER -> s

\* the tracker object, as the methods see it
Self == [balance |-> balance, transactions |-> transactions,
         recurring_transactions |-> recurring_transactions,
         events |-> <<>>, appended |-> <<>>]

Event(self, what) ==
    [ev |-> what, balance |-> self.balance, hist |-> Len(self.transactions)]

notify_user(self, title) ==
    [self EXCEPT !.events = Append(@, Event(self, title))]

st_error(self) == [self EXCEPT !.events = Append(@, Event(self, "error"))]

st_success(self) == [self EXCEPT !.events = Append(@, Event(self, "success"))]

st_warning(self) == [self EXCEPT !.events = Append(@, Event(self, "warning"))]

\* ---------------------------------------------------------- add_transaction

\* the low-balance test with <= in place of <
record_transaction_le(self, amount, category, transaction_type) ==
    LET transaction == [amount |-> amount, category |-> category,
                        type |-> transaction_type]
        s1 == [self EXCEPT !.transactions = Append(@, transaction)]
        s2 == st_success(s1)
    IN  IF s2.balance <= balance_threshold
        THEN notify_user(s2, "Low Balance Alert")
        ELSE s2

\* the low-balance alert raised before the transaction is appended
record_transaction_alert_first(self, amount, category, transaction_type) ==
    LET transaction == [amount |-> amount, category |-> category,
                        type |-> transaction_type]
        s1 == IF self.balance < balance_threshold
              THEN notify_user(self, "Low Balance Alert")
              ELSE self
        s2 == [s1 EXCEPT !.transactions = Append(@, transaction)]
    IN  st_success(s2)

\* lines 30-43: append the transaction, report success, low-balance alert
record_transaction(self, amount, category, transaction_type) ==
    LET transaction == [amount |-> amount, category |-> category,
                        type |-> transaction_type]
        s1 == [self EXCEPT !.transactions = Append(@, transaction)]
        s2 == st_success(s1)
    IN  IF s2.balance < balance_threshold
        THEN notify_user(s2, "Low Balance Alert")
        ELSE s2

\* an expense added to the balance instead of subtracted
add_transaction_expense_added(self, amount, category, transaction_type) ==
    IF Lower(transaction_type) = "income" THEN
        record_transaction([self EXCEPT !.balance = @ + amount],
                           amount, category, transaction_type)
    ELSE IF Lower(transaction_type) = "expense" THEN
        LET s1 == [self EXCEPT !.balance = @ + amount]
            s2 == IF amount > large_expense_threshold
                  THEN notify_user(s1, "Large Expense Alert")
                  ELSE s1
        IN  record_transaction(s2, amount, category, transaction_type)
    ELSE
        st_error(self)

\* the return after st.error left out
add_transaction_no_return(self, amount, category, transaction_type) ==
    IF Lower(transaction_type) = "income" THEN
        record_transaction([self EXCEPT !.balance = @ + amount],
                           amount, category, transaction_type)
    ELSE IF Lower(transaction_type) = "expense" THEN
        LET s1 == [self EXCEPT !.balance = @ - amount]
            s2 == IF amount > large_expense_threshold
                  THEN notify_user(s1, "Large Expense Alert")
                  ELSE s1
        IN  record_transaction(s2, amount, category, transaction_type)
    ELSE
        record_transaction(st_error(self), amount, category, transaction_type)

\* the large-expense test with >= in place of >
add_transaction_ge(self, amount, category, transaction_type) ==
    IF Lower(transaction_type) = "income" THEN
        record_transaction([self EXCEPT !.balance = @ + amount],
                           amount, category, transaction_type)
    ELSE IF Lower(transaction_type) = "expense" THEN
        LET s1 == [self EXCEPT !.balance = @ - amount]
            s2 == IF amount >= large_expense_threshold
                  THEN notify_user(s1, "Large Expense Alert")
                  ELSE s1
        IN  record_transaction(s2, amount, category, transaction_type)
    ELSE
        st_error(self)

\* lines 15-43
add_transaction(self, amount, category, transaction_type) ==
    IF Lower(transaction_type) = "income" THEN
        record_transaction([self EXCEPT !.balance = @ + amount],
                           amount, category, transaction_type)
    ELSE IF Lower(transaction_type) = "expense" THEN
        LET s1 == [self EXCEPT !.balance = @ - amount]
            s2 == IF amount > large_expense_threshold
                  THEN notify_user(s1, "Large Expense Alert")
                  ELSE s1
        IN  record_transaction(s2, amount, category, transaction_type)
    ELSE
        st_error(self)

\* ------------------------------------------------ add_recurring_transaction

add_recurring_transaction(self, amount, category, transaction_type, frequency, clock) ==
    LET recurring_transaction ==
            [amount |-> amount, category |-> category,
             type |-> transaction_type, frequency |-> frequency,
             last_added |-> clock]
    IN  st_success([self EXCEPT !.recurring_transactions =
                                   Append(@, recurring_transaction)])

\* ------------------------------------------- process_recurring_transactions

\* timedelta.days of a difference given in hours (floor, also when negative)
days(delta) == delta \div 24

\* datetime.month of a time given in hours since 1 January 00:00
month(t) ==
    LET day == (t \div 24) % 365
    IN  1 + Cardinality({first \in {31, 59, 90, 120, 151, 181, 212, 243, 273,
                                    304, 334} : day >= first})

\* lines 65-66, 68-69, 71-72: materialize rule i and stamp it
materialize(self, i, clock) ==
    LET transaction == self.recurring_transactions[i]
        s1 == add_transaction(self, transaction.amount, transaction.category,
                              transaction.type)
    IN  [s1 EXCEPT !.recurring_transactions[i].last_added = clock]

\* lines 60-72: the body of the loop, for the rule at position i
process_one(self, i, clock) ==
    LET transaction == self.recurring_transactions[i]
        last_added == transaction.last_added
    IN  IF transaction.frequency = "daily" /\ days(clock - last_added) >= 1
        THEN materialize(self, i, clock)
        ELSE IF transaction.frequency = "weekly"
                /\ days(clock - last_added) >= 7
        THEN materialize(self, i, clock)
        ELSE IF transaction.frequency = "monthly"
                /\ month(clock) # month(last_added)
        THEN materialize(self, i, clock)
        ELSE self

RECURSIVE process_from(_, _, _)
process_from(self, i, clock) ==
    IF i > Len(self.recurring_transactions) THEN self
    ELSE LET s1 == process_one(self, i, clock)
             n == Len(s1.transactions) - Len(self.transactions)
         IN  process_from([s1 EXCEPT !.appended = Append(@, n)], i + 1, clock)

process_recurring_transactions(self, clock) == process_from(self, 1, clock)

\* ----------------------------------------------------------- visualize_data

\* line 95: the amount column after the apply
signed_amount(row) ==
    IF row.type = "expense" THEN -row.amount ELSE row.amount

RECURSIVE SumOf(_)
SumOf(s) == IF s = <<>> THEN 0 ELSE s[1] + SumOf(Tail(s))

RECURSIVE SumSet(_, _)
SumSet(f, S) ==
    IF S = {} THEN 0
    ELSE LET i == CHOOSE j \in S : TRUE IN f[i] + SumSet(f, S \ {i})

\* line 95
amount_column(rows) == [i \in 1..Len(rows) |-> signed_amount(rows[i])]

\* line 100: df.groupby('type')['amount'].sum()
grouped_totals(rows) ==
    LET amount == amount_column(rows)
    IN  [t \in {rows[i].type : i \in 1..Len(rows)} |->
            SumSet(amount, {i \in 1..Len(rows) : rows[i].type = t})]

\* line 107: df['amount'].cumsum()
cumulative_balance(rows) ==
    LET amount == amount_column(rows)
    IN  [i \in 1..Len(rows) |-> SumOf(SubSeq(amount, 1, i))]

NoChart == [shown |-> FALSE, amount |-> <<>>, totals |-> <<>>,
            cumulative_balance |-> <<>>]

visualize_data(self) ==
    IF self.transactions = <<>> THEN NoChart
    ELSE [shown |-> TRUE,
          amount |-> amount_column(self.transactions),
          totals |-> grouped_totals(self.transactions),
          cumulative_balance |-> cumulative_balance(self.transactions)]

\* ----------------------------------------------------------------- actions

NoCall == [op |-> "none", amount |-> 0, category |-> "", type |-> "",
           frequency |-> ""]

Install(self) ==
    /\ balance' = self.balance
    /\ transactions' = self.transactions
    /\ recurring_transactions' = self.recurring_transactions
    /\ events' = self.events

AddTransactionWith(A, C, T) ==
    /\ \E amount \in A, category \in C, transaction_type \in T :
         LET after == add_transaction(Self, amount, category, transaction_type)
         IN  /\ Len(after.transactions) <= MaxHist
             /\ Install(after)
             /\ call' = [NoCall EXCEPT !.op = "add_transaction",
                                       !.amount = amount,
                                       !.category = category,
                                       !.type = transaction_type]
    /\ UNCHANGED <<now, chart, created, expansions>>

\* the session that only records transactions and charts them
AddTransaction == AddTransactionWith(Amounts, Categories, Types)

VisualizeData ==
    /\ chart' = visualize_data(Self)
    /\ events' = IF transactions = <<>> THEN st_warning(Self).events ELSE <<>>
    /\ call' = [NoCall EXCEPT !.op = "visualize_data"]
    /\ UNCHANGED <<balance, transactions, recurring_transactions, now, created,
                   expansions>>

\* the session that also uses recurring transactions
AddTransactionR == AddTransactionWith({50}, {"Rent"}, {"income", "transfer"})

AddRecurringTransaction ==
    /\ Len(recurring_transactions) < MaxRules
    /\ \E amount \in RecAmounts, category \in RecCategories,
          transaction_type \in RecTypes, frequency \in Frequencies :
         /\ Install(add_recurring_transaction(Self, amount, category,
                                              transaction_type, frequency, now))
         /\ call' = [op |-> "add_recurring_transaction", amount |-> amount,
                     category |-> category, type |-> transaction_type,
                     frequency |-> frequency]
    /\ created' = Append(created, now)
    /\ expansions' = Append(expansions, <<>>)
    /\ UNCHANGED <<now, chart>>

ProcessRecurringTransactions ==
    LET after == process_recurring_transactions(Self, now)
    IN  /\ Len(after.transactions) <= MaxHist
        /\ Install(after)
        /\ call' = [NoCall EXCEPT !.op = "process_recurring_transactions"]
        /\ expansions' =
             [i \in 1..Len(expansions) |->
                IF Len(expansions[i]) < 2
                THEN Append(expansions[i],
                            [at |-> now, n |-> after.appended[i],
                             last_added |->
                                after.recurring_transactions[i].last_added])
                ELSE expansions[i]]
        /\ UNCHANGED <<now, chart, created>>

Tick ==
    /\ \E t \in Instants : t > now /\ now' = t
    /\ UNCHANGED <<balance, transactions, recurring_transactions, call, events,
                   chart, created, expansions>>

\* ----------------------------------------------------------- specification

Init ==
    /\ balance = 0
    /\ transactions = <<>>
    /\ recurring_transactions = <<>>
    /\ now = Start
    /\ call = NoCall
    /\ events = <<>>
    /\ chart = NoChart
    /\ created = <<>>
    /\ expansions = <<>>

Next == AddTransaction \/ VisualizeData

Spec == Init /\ [][Next]_vars

NextRecurring ==
    \/ AddTransactionR
    \/ AddRecurringTransaction
    \/ ProcessRecurringTransactions
    \/ Tick

SpecRecurring == Init /\ [][NextRecurring]_vars

\* ------------------------------------------------------------------ claims

\* the kinds add_transaction accepts
Accepted(type) == Lower(type) = "income" \/ Lower(type) = "expense"

\* +amount for an income, -amount for an expense
Signed(t) ==
    CASE Lower(t.type) = "income" -> t.amount
      [] Lower(t.type) = "expense" -> -t.amount
      [] OTHER -> 0

Count(title) == Cardinality({i \in 1..Len(events) : events[i].ev = title})

Direct == call.op = "add_transaction"

\* C1: the balance equals the sum over the history of the signed amounts,
\* whatever calls were made: direct ones, rejected ones, and the ones made by
\* process_recurring_transactions.
C1_BalanceIsSignedSum ==
    balance = SumOf([i \in 1..Len(transactions) |-> Signed(transactions[i])])

C1_Witness ==
    /\ call.op = "process_recurring_transactions"
    /\ \E i \in 1..Len(events) : events[i].ev = "success"
    /\ \E i \in 1..Len(transactions) : Lower(transactions[i].type) = "income"
    /\ \E i \in 1..Len(transactions) : Lower(transactions[i].type) = "expense"
    /\ balance = 50 - 600

\* C2: a call of add_transaction with a kind that is neither income nor expense
\* leaves the balance and the history unchanged, calls the notifier zero times
\* and reports an error: the only event of the call is the error.
C2_RejectedLeavesState ==
    [][(call'.op = "add_transaction" /\ ~Accepted(call'.type))
         => /\ balance' = balance
            /\ transactions' = transactions
            /\ events' = <<[ev |-> "error", balance |-> balance,
                            hist |-> Len(transactions)]>>]_vars

C2_Witness ==
    /\ Direct
    /\ call.type = "transfer"
    /\ transactions # <<>>
    /\ balance < balance_threshold
    /\ Len(events) = 1
    /\ events[1].ev = "error"

\* C3: a call of add_transaction emits exactly one large-expense alert when it
\* is an expense of more than large_expense_threshold, and none otherwise: an
\* expense of exactly the threshold or less, an income of any amount.
C3_LargeExpenseAlert ==
    Direct =>
        Count("Large Expense Alert") =
            IF Lower(call.type) = "expense"
               /\ call.amount > large_expense_threshold
            THEN 1 ELSE 0

C3_Witness ==
    /\ Direct
    /\ Lower(call.type) = "expense"
    /\ call.amount > large_expense_threshold
    /\ Count("Large Expense Alert") = 1

\* C4, as stated: after any call of add_transaction, whatever the kind, exactly
\* one low-balance alert was emitted by the call if the balance is below
\* balance_threshold, and none otherwise.
C4_AnyKind ==
    Direct =>
        Count("Low Balance Alert") =
            IF balance < balance_threshold THEN 1 ELSE 0

\* C4, amended: after a call of add_transaction with an accepted kind, exactly
\* one low-balance alert was emitted by the call if the resulting balance is
\* below balance_threshold and none if it is equal or above; a rejected call
\* emits none, whatever the balance.
C4_AcceptedKind ==
    Direct =>
        Count("Low Balance Alert") =
            IF Accepted(call.type) /\ balance < balance_threshold
            THEN 1 ELSE 0

C4_Witness ==
    /\ Direct
    /\ Accepted(call.type)
    /\ balance < balance_threshold
    /\ Count("Low Balance Alert") = 1

\* C9: in an accepted call of add_transaction the large-expense alert is
\* emitted after the balance update and before the append (it sees the new
\* balance and a history without the transaction), the low-balance alert after
\* the append (it sees the history with the transaction), and the large-expense
\* alert precedes the low-balance alert.
C9_EventOrder ==
    (Direct /\ Accepted(call.type)) =>
        LET large == {i \in 1..Len(events) :
                        events[i].ev = "Large Expense Alert"}
            low == {i \in 1..Len(events) : events[i].ev = "Low Balance Alert"}
        IN  /\ \A i \in large : /\ events[i].balance = balance
                                /\ events[i].hist = Len(transactions) - 1
            /\ \A i \in low : /\ events[i].balance = balance
                              /\ events[i].hist = Len(transactions)
            /\ \A i \in large, j \in low : i < j
            /\ transactions[Len(transactions)] =
                  [amount |-> call.amount, category |-> call.category,
                   type |-> call.type]

C9_Witness ==
    /\ Direct
    /\ Accepted(call.type)
    /\ Count("Large Expense Alert") = 1
    /\ Count("Low Balance Alert") = 1
    /\ Len(transactions) > 1

\* C7: the cumulative balance visualize_data derives from a non-empty history
\* is as long as the history and ends at the balance.
C7_CumulativeEndsAtBalance ==
    (call.op = "visualize_data" /\ transactions # <<>>) =>
        /\ Len(chart.cumulative_balance) = Len(transactions)
        /\ chart.cumulative_balance[Len(transactions)] = balance

\* C8: the totals visualize_data groups by kind are the sums of the amounts, as
\* recorded, of the transactions of that kind.
C8_GroupedTotals ==
    (call.op = "visualize_data" /\ transactions # <<>>) =>
        \A t \in DOMAIN chart.totals :
            chart.totals[t] =
                SumSet([i \in 1..Len(transactions) |-> transactions[i].amount],
                       {i \in 1..Len(transactions) : transactions[i].type = t})

\* the elapsed-interval policy of a recurring transaction
Elapsed(rule, clock) ==
    \/ rule.frequency = "daily" /\ days(clock - rule.last_added) >= 1
    \/ rule.frequency = "weekly" /\ days(clock - rule.last_added) >= 7
    \/ rule.frequency = "monthly" /\ month(clock) # month(rule.last_added)

RECURSIVE Materialized(_, _, _)
Materialized(rules, i, clock) ==
    IF i > Len(rules) THEN <<>>
    ELSE (IF Elapsed(rules[i], clock)
          THEN <<[amount |-> rules[i].amount, category |-> rules[i].category,
                  type |-> rules[i].type]>>
          ELSE <<>>) \o Materialized(rules, i + 1, clock)

\* C5: one call of process_recurring_transactions appends, for every rule
\* whose interval has elapsed, exactly one transaction with the rule's amount,
\* category and kind and stamps the rule with the current time; a rule whose
\* interval has not elapsed gets no transaction and keeps its stamp.
C5_OnePerElapsedRule ==
    [][(call'.op = "process_recurring_transactions" /\ now' = now)
         => /\ transactions' =
                 transactions \o Materialized(recurring_transactions, 1, now)
            /\ recurring_transactions' =
                 [i \in 1..Len(recurring_transactions) |->
                    IF Elapsed(recurring_transactions[i], now)
                    THEN [recurring_transactions[i] EXCEPT !.last_added = now]
                    ELSE recurring_transactions[i]]]_vars

\* C6: a daily rule created at T, expanded first at T + 25 h and then at
\* T + 26 h, materializes one transaction in the first call and none in the
\* second.
C6_DailyOnceIn25hThen26h ==
    \A i \in 1..Len(recurring_transactions) :
        (/\ recurring_transactions[i].frequency = "daily"
         /\ Len(expansions[i]) = 2
         /\ expansions[i][1].at = created[i] + 25
         /\ expansions[i][2].at = created[i] + 26)
        => /\ expansions[i][1].n = 1
           /\ expansions[i][1].last_added = created[i] + 25
           /\ expansions[i][2].n = 0

\* the same for the daily rules of a kind add_transaction accepts
DailyOnceIn25hThen26hAccepted ==
    \A i \in 1..Len(recurring_transactions) :
        (/\ recurring_transactions[i].frequency = "daily"
         /\ Accepted(recurring_transactions[i].type)
         /\ Len(expansions[i]) = 2
         /\ expansions[i][1].at = created[i] + 25
         /\ expansions[i][2].at = created[i] + 26)
        => /\ expansions[i][1].n = 1
           /\ expansions[i][1].last_added = created[i] + 25
           /\ expansions[i][2].n = 0

\* C10: a monthly rule of an accepted kind first expanded 12 months (365 days)
\* after it was created is judged elapsed and materializes one transaction.
C10_MonthlyAfterTwelveMonths ==
    \A i \in 1..Len(recurring_transactions) :
        (/\ recurring_transactions[i].frequency = "monthly"
         /\ Accepted(recurring_transactions[i].type)
         /\ Len(expansions[i]) >= 1
         /\ expansions[i][1].at = created[i] + 365 * 24)
        => /\ expansions[i][1].last_added = expansions[i][1].at
           /\ expansions[i][1].n = 1

====
